---- MODULE Spec2Model ----
(***************************************************************************)
(* ISTQB Trainer (istqb_trainer.py): the practice session of one browser   *)
(* session.  One action is one run of the Streamlit script main(): the run *)
(* reads the sidebar widgets, the pressed button or the radio selection,   *)
(* st.session_state and stats.json, and leaves a new st.session_state and  *)
(* possibly a new stats.json.  st.rerun() ends a run and queues the next.  *)
(*                                                                         *)
(* Python lists are sequences holding the 0-based values of the code, so   *)
(* order[pos] of the code is order[pos + 1] here.  Dicts are functions     *)
(* whose DOMAIN is the set of keys.  The stats key f"{language}:{set}:{id}"*)
(* is the triple <<language, set, id>> (no name of the model holds ":").   *)
(* Rates (correct / seen < 0.7, round(correct / total * 100, 1)) are       *)
(* computed in exact integer arithmetic, which agrees with the floats of   *)
(* the code for the small counts of the model.                             *)
(***************************************************************************)
EXTENDS Integers, Sequences, FiniteSets

VARIABLES
    question_files,   \* file name -> [exists, data]: questions_*.json
    stats_file,       \* [kind, data]: stats.json ("missing", "corrupt", "ok")
    session_state,    \* st.session_state: a record, the empty one at first
    rerun_pending,    \* st.rerun() was called: the script runs again at once
    questions,        \* main()'s local `questions` of the last run that got it
    result,           \* what show_results displayed last: [shown, correct, total, score_percent]
    runs_completed,   \* number of stats updates so far (bounds the model)
    generator         \* the locals of a run of generate_questions_*.py

vars == <<question_files, stats_file, session_state, rerun_pending,
          questions, result, runs_completed, generator>>

\* ------------------------------------------------------------- bounds
\* random.shuffle may return any permutation; the model draws its outcome
\* from the first MaxShuffles rotations of the list.
MaxShuffles == 2
\* "Zacit test" is pressed only while fewer than MaxRuns runs were completed.
MaxRuns == 1

\* ------------------------------------------------------------- dicts
EmptyDict == [k \in {} |-> 0]

Get(d, k, default) == IF k \in DOMAIN d THEN d[k] ELSE default

Put(d, k, v) == [x \in (DOMAIN d) \cup {k} |-> IF x = k THEN v ELSE d[x]]

Range(s) == {s[i] : i \in DOMAIN s}

\* list(range(n))
ListRange(n) == [i \in 1..n |-> i - 1]

\* list[i] of Python: a negative i counts from the end; IndexError outside
InRange(s, i) == -Len(s) <= i /\ i < Len(s)

At(s, i) == IF i >= 0 THEN s[i + 1] ELSE s[Len(s) + i + 1]

\* list.index(x): the first 0-based position holding x
IndexOf(s, x) == (CHOOSE i \in 1..Len(s) : s[i] = x /\ \A j \in 1..(i - 1) : s[j] # x) - 1

\* ------------------------------------------------------------- inputs
LANG_FILES == [Cestina |-> "questions_cs.json", English |-> "questions_en.json"]

Languages == DOMAIN LANG_FILES

Usernames == {"alice"}

PracticeModes == {"Standard", "Targeted"}

\* The question artifact files the trainer is run with.  The English file is
\* not ordered by id, and question A-3 has two blank option slots.
Q(s, i, l, opts, c) ==
    [set |-> s, id |-> i, language |-> l, question |-> "stem",
     options |-> opts, correct_index |-> c]

TrainerFiles ==
    [f \in {"questions_cs.json", "questions_en.json"} |->
        IF f = "questions_en.json"
        THEN [exists |-> TRUE,
              data |-> << Q("A", 3, "en", <<"alpha", "beta", "", "">>, 1),
                          Q("B", 2, "en", <<"w", "x", "y", "z">>, 3),
                          Q("A", 1, "en", <<"foo", "bar", "baz", "qux">>, 1) >>]
        ELSE [exists |-> TRUE,
              data |-> << Q("A", 1, "cs", <<"ano", "ne", "mozna", "nikdy">>, 0) >>]]

\* ------------------------------------------------------------- load_questions
RECURSIVE InsertById(_, _)
\* sorted() is stable: q goes after every record whose id is not larger
InsertById(s, q) ==
    IF s = <<>> THEN <<q>>
    ELSE IF q.id < Head(s).id THEN <<q>> \o s
    ELSE <<Head(s)>> \o InsertById(Tail(s), q)

RECURSIVE SortById(_)
SortById(s) ==
    IF s = <<>> THEN <<>>
    ELSE InsertById(SortById(SubSeq(s, 1, Len(s) - 1)), s[Len(s)])

load_questions(file) ==
    IF ~file.exists THEN EmptyDict
    ELSE [s \in {file.data[i].set : i \in DOMAIN file.data} |->
            SortById(SelectSeq(file.data, LAMBDA q : q.set = s))]

\* ------------------------------------------------------------- stats.json
load_stats(file) == IF file.kind = "ok" THEN file.data ELSE EmptyDict

save_stats(stats) == [kind |-> "ok", data |-> stats]

StatsKey(language, q) == <<language, q.set, q.id>>

Qid(q, language) == <<q.set, q.id, language>>

\* The `questions` dict of a user in a loaded stats dict: stats.get(u, {}).get("questions", {})
UserQuestions(stats, username) ==
    IF username \in DOMAIN stats THEN stats[username].questions ELSE EmptyDict

\* ------------------------------------------------------------- update_stats_for_run
\* A loop body that counts every answered question as correct.
RecordQuestionAnswered(q_stats, q, language, answers) ==
    LET key == StatsKey(language, q)
        rec == Get(q_stats, key, [seen |-> 0, correct |-> 0])
    IN  Put(q_stats, key,
            [seen |-> rec.seen + 1,
             correct |-> IF Qid(q, language) \in DOMAIN answers
                         THEN rec.correct + 1 ELSE rec.correct])

\* The loop body: setdefault the record, count the question as seen, and as
\* correct when the stored answer is its correct_index.
RecordQuestion(q_stats, q, language, answers) ==
    LET key == StatsKey(language, q)
        rec == Get(q_stats, key, [seen |-> 0, correct |-> 0])
        qid == Qid(q, language)
        hit == qid \in DOMAIN answers /\ answers[qid] = q.correct_index
    IN  Put(q_stats, key,
            [seen |-> rec.seen + 1,
             correct |-> IF hit THEN rec.correct + 1 ELSE rec.correct])

RECURSIVE RecordQuestions(_, _, _, _)
RecordQuestions(q_stats, qs, language, answers) ==
    IF qs = <<>> THEN q_stats
    ELSE RecordQuestions(RecordQuestion(q_stats, Head(qs), language, answers),
                         Tail(qs), language, answers)

\* An update that saves the record of the current user alone.
update_stats_of_user_only(file, ss, qs) ==
    LET q_stats == UserQuestions(load_stats(file), ss.username)
        updated == RecordQuestions(q_stats, qs, ss.language, ss.answers)
    IN  save_stats([u \in {ss.username} |-> [questions |-> updated]])

\* load, setdefault the user, run the loop, save: the new stats.json
update_stats_for_run(file, ss, qs) ==
    LET stats == load_stats(file)
        q_stats == UserQuestions(stats, ss.username)
        updated == RecordQuestions(q_stats, qs, ss.language, ss.answers)
    IN  save_stats(Put(stats, ss.username, [questions |-> updated]))

\* ------------------------------------------------------------- get_questions_for_mode
\* success_rate <= 0.7
RateAtMostThreshold(seen, correct) == 10 * correct <= 7 * seen

\* success_rate = correct / seen;  success_rate < 0.7
RateBelowThreshold(seen, correct) == 10 * correct < 7 * seen

IsWeak(user_stats, language, q) ==
    LET key == StatsKey(language, q)
    IN  /\ key \in DOMAIN user_stats
        /\ user_stats[key].seen # 0
        /\ RateBelowThreshold(user_stats[key].seen, user_stats[key].correct)

WeakQuestions(qs, user_stats, language) ==
    SelectSeq(qs, LAMBDA q : IsWeak(user_stats, language, q))

\* The weak questions, when there are any, whatever the practice mode.
get_questions_weak_first(sets, selected_set, practice_mode, ss, file) ==
    LET all == sets[selected_set]
        weak == WeakQuestions(all, UserQuestions(load_stats(file), ss.username), ss.language)
    IN  IF weak # <<>> THEN weak ELSE all

get_questions_for_mode(sets, selected_set, practice_mode, ss, file) ==
    LET all == sets[selected_set]
        weak == WeakQuestions(all, UserQuestions(load_stats(file), ss.username), ss.language)
    IN  IF practice_mode = "Targeted" /\ weak # <<>> THEN weak ELSE all

\* ------------------------------------------------------------- init_state
init_state(selected_set, language, shuffle_questions, shuffle_options, username, practice_mode) ==
    [language |-> language,
     selected_set |-> selected_set,
     shuffle_questions |-> shuffle_questions,
     shuffle_options |-> shuffle_options,
     username |-> username,
     practice_mode |-> practice_mode,
     started |-> FALSE,
     finished |-> FALSE,
     current_index |-> 0,
     question_order |-> <<>>,
     option_orders |-> EmptyDict,
     answers |-> EmptyDict,
     start_time |-> "None",
     stats_updated |-> FALSE]

\* A reset test that leaves the practice mode out.
NeedsResetIgnoringMode(ss, w) ==
    IF "selected_set" \notin DOMAIN ss THEN TRUE
    ELSE ~ /\ ss.selected_set = w.selected_set
           /\ ss.language = w.language
           /\ ss.shuffle_questions = w.shuffle_questions
           /\ ss.shuffle_options = w.shuffle_options
           /\ ss.username = w.username

\* The reset test of main(): no session yet, or a sidebar value differs.
NeedsReset(ss, w) ==
    IF "selected_set" \notin DOMAIN ss THEN TRUE
    ELSE ~ /\ ss.selected_set = w.selected_set
           /\ ss.language = w.language
           /\ ss.shuffle_questions = w.shuffle_questions
           /\ ss.shuffle_options = w.shuffle_options
           /\ ss.username = w.username
           /\ ss.practice_mode = w.practice_mode

\* A shuffle that repeats one element of the list.
ShuffleRepeating(list, r) ==
    LET n == Len(list)
    IN  IF n = 0 THEN list ELSE [i \in 1..n |-> list[(r % n) + 1]]

\* ------------------------------------------------------------- ensure_order_structures
\* random.shuffle(list): outcome number r of the shuffle
Shuffle(list, r) ==
    LET n == Len(list)
    IN  IF n = 0 THEN list ELSE [i \in 1..n |-> list[((i - 1 + r) % n) + 1]]

\* An order that is built anew in every run.
OrderAlwaysStale(ss, total) == TRUE

OrderIsStale(ss, total) ==
    ss.question_order = <<>> \/ Len(ss.question_order) # total

\* the qids of `qs` that have no option order yet
MissingQids(ss, qs) ==
    {Qid(qs[i], ss.language) : i \in DOMAIN qs} \ DOMAIN ss.option_orders

FirstWithQid(qs, language, qid) ==
    qs[CHOOSE i \in DOMAIN qs :
          /\ Qid(qs[i], language) = qid
          /\ \A j \in 1..(i - 1) : Qid(qs[j], language) # qid]

NewQuestionOrder(ss, total, r) ==
    IF ss.shuffle_questions THEN Shuffle(ListRange(total), r) ELSE ListRange(total)

NewOptionOrder(ss, q, r) ==
    IF ss.shuffle_options THEN Shuffle(ListRange(Len(q.options)), r)
    ELSE ListRange(Len(q.options))

ensure_order_structures(ss, qs, rnd) ==
    LET total == Len(qs)
        order == IF OrderIsStale(ss, total)
                 THEN NewQuestionOrder(ss, total, rnd.order)
                 ELSE ss.question_order
        missing == MissingQids(ss, qs)
        opts == [qid \in (DOMAIN ss.option_orders) \cup missing |->
                    IF qid \in DOMAIN ss.option_orders
                    THEN ss.option_orders[qid]
                    ELSE NewOptionOrder(ss, FirstWithQid(qs, ss.language, qid), rnd.options[qid])]
    IN  [ss EXCEPT !.question_order = order, !.option_orders = opts]

\* The draws of the random generator a run of ensure_order_structures may use.
ShuffleOutcomes == 0..(MaxShuffles - 1)

Draws(ss, qs) ==
    [order : IF OrderIsStale(ss, Len(qs)) /\ ss.shuffle_questions
             THEN ShuffleOutcomes ELSE {0},
     options : [MissingQids(ss, qs) ->
                  IF ss.shuffle_options THEN ShuffleOutcomes ELSE {0}]]

\* ------------------------------------------------------------- show_results
\* A count of the answered questions instead of the correct ones.
RECURSIVE CountAnswered(_, _, _)
CountAnswered(qs, language, answers) ==
    IF qs = <<>> THEN 0
    ELSE (IF Qid(Head(qs), language) \in DOMAIN answers THEN 1 ELSE 0)
         + CountAnswered(Tail(qs), language, answers)

RECURSIVE CountCorrect(_, _, _)
CountCorrect(qs, language, answers) ==
    IF qs = <<>> THEN 0
    ELSE (IF /\ Qid(Head(qs), language) \in DOMAIN answers
             /\ answers[Qid(Head(qs), language)] = Head(qs).correct_index
          THEN 1 ELSE 0)
         + CountCorrect(Tail(qs), language, answers)

\* round(correct / total * 100, 1) in tenths of a percent (75.0 is 750):
\* to the nearest tenth, a tie to the even one
ScorePercent(correct, total) ==
    LET n == correct * 1000
        q == n \div total
        r == n % total
    IN  IF 2 * r < total THEN q
        ELSE IF 2 * r > total THEN q + 1
        ELSE IF q % 2 = 0 THEN q ELSE q + 1

Score(qs, ss) ==
    LET correct == CountCorrect(qs, ss.language, ss.answers)
        total == Len(qs)
    IN  [shown |-> TRUE, correct |-> correct, total |-> total,
         score_percent |-> ScorePercent(correct, total)]

\* show_results without its one-shot flag.
StatsUpdateAlways(ss) == TRUE

\* if not st.session_state.stats_updated
StatsUpdateDue(ss) == ~ss.stats_updated

\* show_results(questions) on state st: the one-shot stats update, then the score
show_results(st, qs) ==
    LET ss == st.session_state
        due == StatsUpdateDue(ss)
    IN  [st EXCEPT
            !.stats_file = IF due THEN update_stats_for_run(st.stats_file, ss, qs) ELSE @,
            !.runs_completed = IF due THEN @ + 1 ELSE @,
            !.session_state = IF due THEN [ss EXCEPT !.stats_updated = TRUE] ELSE ss,
            !.result = Score(qs, ss)]

\* ------------------------------------------------------------- main
\* A button that ignores `disabled`.
ButtonPressedAnyway(ev, label, disabled) == ev.kind = label

\* st.button(label, disabled=...): True in the run the press of that button
\* started; a disabled button is never pressed.
ButtonPressed(ev, label, disabled) == ev.kind = label /\ ~disabled

\* can_finish = len(st.session_state.answers) >= total_questions
can_finish(ss, total) == Cardinality(DOMAIN ss.answers) >= total

\* The radio of the question page: the displayed position that is selected
\* (the user's choice in the run it started, else index=prev_shuffled_index),
\* mapped back through the option text to an original index.
PrevShuffledIndex(ss, qid, opt_order) ==
    IF qid \in DOMAIN ss.answers /\ ss.answers[qid] \in Range(opt_order)
    THEN IndexOf(opt_order, ss.answers[qid])
    ELSE 0

SelectedOriginalIndex(ss, question, qid, opt_order, ev) ==
    LET shuffled_options == [i \in 1..Len(opt_order) |-> question.options[opt_order[i] + 1]]
        shown == IF ev.kind = "select" /\ ev.p < Len(shuffled_options)
                 THEN ev.p
                 ELSE PrevShuffledIndex(ss, qid, opt_order)
        selected_option == shuffled_options[shown + 1]
        selected_shuffled_index == IndexOf(shuffled_options, selected_option)
    IN  opt_order[selected_shuffled_index + 1]

\* An answer that is kept once given (setdefault instead of assignment).
StoreFirstAnswer(ss, qid, original_index) ==
    [ss EXCEPT !.answers = IF qid \in DOMAIN @ THEN @ ELSE Put(@, qid, original_index)]

\* st.session_state.answers[qid] = original_index
StoreAnswer(ss, qid, original_index) ==
    [ss EXCEPT !.answers = Put(@, qid, original_index)]

\* The page before the start: "Zacit test".
IntroPage(st, qs, ev, rnd) ==
    LET ss == st.session_state
    IN  IF ButtonPressed(ev, "start", FALSE)
        THEN [st EXCEPT
                !.session_state =
                    ensure_order_structures(
                        [ss EXCEPT !.started = TRUE, !.start_time = "set"], qs, rnd),
                !.rerun_pending = TRUE]
        ELSE st

\* The result page: show_results, then "Zkusit znovu tuto kombinaci".
ResultsPage(st, qs, w, ev) ==
    LET shown == show_results(st, qs)
        ss == shown.session_state
    IN  IF ButtonPressed(ev, "retry", FALSE)
        THEN [shown EXCEPT
                !.session_state =
                    init_state(w.selected_set, w.language, ss.shuffle_questions,
                               ss.shuffle_options, w.username, w.practice_mode),
                !.rerun_pending = TRUE]
        ELSE shown

\* The question page: the orders, the radio, and the three buttons in order.
QuestionPage(st, qs, ev, rnd) ==
    LET total == Len(qs)
        ss1 == ensure_order_structures(st.session_state, qs, rnd)
        order == ss1.question_order
        pos == ss1.current_index
    IN  IF ~InRange(order, pos) \/ ~InRange(qs, At(order, pos))
        THEN \* IndexError: the run ends here
             [st EXCEPT !.session_state = ss1]
        ELSE
        LET question == At(qs, At(order, pos))
            qid == Qid(question, ss1.language)
            opt_order == ss1.option_orders[qid]
            ss2 == StoreAnswer(ss1, qid,
                               SelectedOriginalIndex(ss1, question, qid, opt_order, ev))
        IN  IF ButtonPressed(ev, "prev", pos = 0)
            THEN [st EXCEPT !.session_state = [ss2 EXCEPT !.current_index = @ - 1],
                            !.rerun_pending = TRUE]
            ELSE IF ButtonPressed(ev, "next", pos = total - 1)
            THEN [st EXCEPT !.session_state = [ss2 EXCEPT !.current_index = @ + 1],
                            !.rerun_pending = TRUE]
            ELSE IF ButtonPressed(ev, "finish", ~can_finish(ss2, total))
            THEN [st EXCEPT !.session_state = [ss2 EXCEPT !.finished = TRUE],
                            !.rerun_pending = TRUE]
            ELSE [st EXCEPT !.session_state = ss2]

\* What a run does before it draws anything at random: the early exits, the
\* reset on a changed sidebar, and the questions of the mode.
TrainingSets(st, w) == load_questions(st.question_files[LANG_FILES[w.language]])

RunStops(st, w) ==
    \/ w.username = ""
    \/ w.app_mode = "Statistiky"
    \/ TrainingSets(st, w) = EmptyDict

SyncedState(st, w) ==
    IF NeedsReset(st.session_state, w)
    THEN init_state(w.selected_set, w.language, w.shuffle_questions,
                    w.shuffle_options, w.username, w.practice_mode)
    ELSE st.session_state

RunQuestions(st, w) ==
    get_questions_for_mode(TrainingSets(st, w), w.selected_set, w.practice_mode,
                           SyncedState(st, w), st.stats_file)

\* The intro test without `not started`.
ShowsIntroUnlessFinished(ss) == ~ss.finished

\* if not st.session_state.started and not st.session_state.finished
ShowsIntro(ss) == ~ss.started /\ ~ss.finished

\* One run of main() on state st with sidebar values w, event ev and random
\* draws rnd: the state it leaves.
main(st, w, ev, rnd) ==
    LET idle == [st EXCEPT !.rerun_pending = FALSE]
    IN  IF RunStops(st, w) THEN idle
        ELSE
        LET ss == SyncedState(st, w)
            qs == RunQuestions(st, w)
            at == [idle EXCEPT !.session_state = ss, !.questions = qs]
        IN  IF Len(qs) = 0 THEN at
            ELSE IF ShowsIntro(ss) THEN IntroPage(at, qs, ev, rnd)
            ELSE IF ss.finished THEN ResultsPage(at, qs, w, ev)
            ELSE QuestionPage(at, qs, ev, rnd)

\* The random draws a run on st with sidebar values w and event ev may use:
\* ensure_order_structures is reached from the pressed start button and from
\* the question page.
NoDraws == [order |-> 0, options |-> EmptyDict]

RunDraws(st, w, ev) ==
    IF RunStops(st, w) THEN {NoDraws}
    ELSE LET ss == SyncedState(st, w)
         IN  IF \/ ShowsIntro(ss) /\ ev.kind = "start"
                \/ ~ShowsIntro(ss) /\ ~ss.finished
             THEN Draws(ss, RunQuestions(st, w))
             ELSE {NoDraws}

\* ------------------------------------------------------------- the session machine
Cur ==
    [question_files |-> question_files, stats_file |-> stats_file,
     session_state |-> session_state, rerun_pending |-> rerun_pending,
     questions |-> questions, result |-> result, runs_completed |-> runs_completed]

Apply(n) ==
    /\ question_files' = n.question_files
    /\ stats_file' = n.stats_file
    /\ session_state' = n.session_state
    /\ rerun_pending' = n.rerun_pending
    /\ questions' = n.questions
    /\ result' = n.result
    /\ runs_completed' = n.runs_completed
    /\ UNCHANGED generator

HasSession == "selected_set" \in DOMAIN session_state
NotStarted == HasSession /\ ~session_state.started /\ ~session_state.finished
InProgress == HasSession /\ session_state.started /\ ~session_state.finished
Finished == HasSession /\ session_state.finished

SetNames(language) == DOMAIN load_questions(question_files[LANG_FILES[language]])

\* The sidebar as the session last saw it.
CurrentWidgets ==
    [username |-> session_state.username, app_mode |-> "Trenink",
     language |-> session_state.language,
     selected_set |-> session_state.selected_set,
     practice_mode |-> session_state.practice_mode,
     shuffle_questions |-> session_state.shuffle_questions,
     shuffle_options |-> session_state.shuffle_options]

NoEvent == [kind |-> "none", p |-> 0]
Press(label) == [kind |-> label, p |-> 0]

Run(w, ev) == \E rnd \in RunDraws(Cur, w, ev) : Apply(main(Cur, w, ev, rnd))

\* The sidebar before the first run of a session: the first language, its
\* first set, the standard mode, both shuffles ticked.
DefaultWidgets(username) ==
    [username |-> username, app_mode |-> "Trenink", language |-> "Cestina",
     selected_set |-> "A", practice_mode |-> "Standard",
     shuffle_questions |-> TRUE, shuffle_options |-> TRUE]

ShownWidgets == IF HasSession THEN CurrentWidgets ELSE DefaultWidgets("")

\* One interaction changes one widget; a new language brings its own list of
\* sets.  The first run of a session comes with the name typed in.
ChangedWidgets ==
    LET c == ShownWidgets
    IN  IF ~HasSession THEN {DefaultWidgets(u) : u \in Usernames}
        ELSE {[c EXCEPT !.username = u] : u \in Usernames}
             \cup {[c EXCEPT !.practice_mode = m] : m \in PracticeModes}
             \cup {[c EXCEPT !.shuffle_questions = b] : b \in BOOLEAN}
             \cup {[c EXCEPT !.shuffle_options = b] : b \in BOOLEAN}
             \cup {[c EXCEPT !.selected_set = s] : s \in SetNames(c.language)}
             \cup UNION {{[c EXCEPT !.language = l, !.selected_set = s] : s \in SetNames(l)} :
                            l \in Languages \ {c.language}}

\* A run with an empty name, or with the statistics page chosen.
LeaveTraining ==
    /\ ~rerun_pending
    /\ \/ Run([ShownWidgets EXCEPT !.username = ""], NoEvent)
       \/ /\ HasSession
          /\ Run([ShownWidgets EXCEPT !.app_mode = "Statistiky"], NoEvent)

\* A sidebar value changes (or the first run with a name).
ChangeSidebar ==
    /\ ~rerun_pending
    /\ \E w \in ChangedWidgets :
         /\ NeedsReset(session_state, w)
         /\ Run(w, NoEvent)

\* The training page is drawn again with the sidebar unchanged (the user
\* comes back from the statistics page).
Rerender ==
    /\ ~rerun_pending
    /\ HasSession
    /\ Run(CurrentWidgets, NoEvent)

\* The run that st.rerun() queued.
Rerun ==
    /\ rerun_pending
    /\ Run(CurrentWidgets, NoEvent)

PressStart ==
    /\ ~rerun_pending
    /\ HasSession
    /\ NotStarted => runs_completed < MaxRuns
    /\ Run(CurrentWidgets, Press("start"))

\* The user picks the option displayed at position p of the radio.
Select(p) == [kind |-> "select", p |-> p]

SelectOption ==
    /\ ~rerun_pending
    /\ HasSession
    /\ \E p \in 0..3 : Run(CurrentWidgets, Select(p))

PressPrev ==
    /\ ~rerun_pending
    /\ HasSession
    /\ Run(CurrentWidgets, Press("prev"))

PressNext ==
    /\ ~rerun_pending
    /\ HasSession
    /\ Run(CurrentWidgets, Press("next"))

PressFinish ==
    /\ ~rerun_pending
    /\ HasSession
    /\ Run(CurrentWidgets, Press("finish"))

PressRetry ==
    /\ ~rerun_pending
    /\ HasSession
    /\ Run(CurrentWidgets, Press("retry"))

\* stats.json before the first run: absent, or a record of earlier practice
\* (with a question never seen and a user who is not here).
EarlierStats ==
    [u \in {"alice", "carol"} |->
        IF u = "alice"
        THEN [questions |->
                [k \in {<<"English", "A", 1>>, <<"English", "A", 3>>} |->
                    IF k = <<"English", "A", 1>>
                    THEN [seen |-> 3, correct |-> 2]
                    ELSE [seen |-> 0, correct |-> 0]]]
        ELSE [questions |->
                [k \in {<<"English", "B", 2>>} |-> [seen |-> 4, correct |-> 1]]]]

InitialStatsFiles ==
    {[kind |-> "missing", data |-> EmptyDict],
     [kind |-> "ok", data |-> EarlierStats]}

NoResult == [shown |-> FALSE, correct |-> 0, total |-> 0, score_percent |-> 0]

\* No generator script is running.
GeneratorOff == [pc |-> "off"]

Init ==
    /\ question_files = TrainerFiles
    /\ stats_file \in InitialStatsFiles
    /\ session_state = EmptyDict
    /\ rerun_pending = FALSE
    /\ questions = <<>>
    /\ result = NoResult
    /\ runs_completed = 0
    /\ generator = GeneratorOff

Next ==
    \/ LeaveTraining
    \/ ChangeSidebar
    \/ Rerender
    \/ Rerun
    \/ PressStart
    \/ SelectOption
    \/ PressPrev
    \/ PressNext
    \/ PressFinish
    \/ PressRetry

Spec == Init /\ [][Next]_vars

\* ------------------------------------------------------------- one exam set
\* One run on set D (four questions), the sidebar left alone and no retry:
\* the name, the language, the set and the unticked shuffles are given, the
\* mode and the earlier statistics vary.
ExamFiles ==
    [f \in {"questions_cs.json", "questions_en.json"} |->
        IF f = "questions_en.json"
        THEN [exists |-> TRUE,
              data |-> << Q("D", 1, "en", <<"a1", "b1", "c1", "d1">>, 0),
                          Q("D", 2, "en", <<"a2", "b2", "c2", "d2">>, 1),
                          Q("D", 4, "en", <<"a4", "b4", "c4", "d4">>, 3),
                          Q("D", 3, "en", <<"a3", "b3", "c3", "d3">>, 2) >>]
        ELSE [exists |-> FALSE, data |-> <<>>]]

ExamKeys == {<<"English", "D", i>> : i \in 1..4}

\* Earlier practice: no file, or records for D-1 (rate 1/4 or 2/3), D-2
\* (never seen, or rate 3/4) and D-3 (rate 7/10), none for D-4.
ExamStatsFiles ==
    {[kind |-> "missing", data |-> EmptyDict]}
    \cup {[kind |-> "ok",
           data |-> [u \in {"alice"} |-> [questions |-> qs]]] :
            qs \in {[k \in ExamKeys \ {<<"English", "D", 4>>} |->
                        IF k[3] = 1 THEN r1 ELSE IF k[3] = 2 THEN r2 ELSE r3] :
                    r1 \in {[seen |-> 4, correct |-> 1], [seen |-> 3, correct |-> 2]},
                    r2 \in {[seen |-> 0, correct |-> 0], [seen |-> 4, correct |-> 3]},
                    r3 \in {[seen |-> 10, correct |-> 7]}}}

InitExam ==
    /\ question_files = ExamFiles
    /\ stats_file \in ExamStatsFiles
    /\ \E m \in PracticeModes :
         session_state = init_state("D", "English", FALSE, FALSE, "alice", m)
    /\ rerun_pending = FALSE
    /\ questions = <<>>
    /\ result = NoResult
    /\ runs_completed = 0
    /\ generator = GeneratorOff

NextExam ==
    \/ LeaveTraining
    \/ Rerender
    \/ Rerun
    \/ PressStart
    \/ SelectOption
    \/ PressPrev
    \/ PressNext
    \/ PressFinish

SpecExam == InitExam /\ [][NextExam]_vars

\* ------------------------------------------------------------- generator: text
\* generate_questions_en.py and generate_questions_cs.py.  A text is a
\* sequence of tokens: "\n" is a line break, " " a run of blanks, every other
\* token a run of characters without blanks that the regular expressions of
\* the code take or leave as a whole.  int(), str.lower(), str.strip() and
\* the regular expressions are computed on the tokens.  The Czech words of
\* the scripts (Otazka, Klic odpovedi) are written without their diacritics.
NL == "\n"

IsSpace(tok) == tok \in {" ", NL}

RECURSIVE lstrip(_)
lstrip(s) == IF s # <<>> /\ IsSpace(s[1]) THEN lstrip(Tail(s)) ELSE s

RECURSIVE rstrip(_)
rstrip(s) == IF s # <<>> /\ IsSpace(s[Len(s)]) THEN rstrip(SubSeq(s, 1, Len(s) - 1)) ELSE s

\* str.strip()
strip(s) == lstrip(rstrip(s))

\* str.split("\n")
RECURSIVE SplitNewlines(_)
SplitNewlines(text) ==
    IF \A i \in 1..Len(text) : text[i] # NL THEN <<text>>
    ELSE LET i == CHOOSE i \in 1..Len(text) :
                    text[i] = NL /\ \A j \in 1..(i - 1) : text[j] # NL
         IN  <<SubSeq(text, 1, i - 1)>> \o SplitNewlines(SubSeq(text, i + 1, Len(text)))

\* str.splitlines(): a line break at the end opens no further line
splitlines(text) ==
    LET p == SplitNewlines(text)
    IN  IF p[Len(p)] = <<>> THEN SubSeq(p, 1, Len(p) - 1) ELSE p

\* sep.join(list)
RECURSIVE Join(_, _)
Join(list, sep) ==
    IF list = <<>> THEN <<>>
    ELSE IF Len(list) = 1 THEN list[1]
    ELSE list[1] \o <<sep>> \o Join(Tail(list), sep)

\* "\n".join(texts) of extract_text, here of the lines of a document
JoinLines(lines) == Join(lines, NL)

\* int() of a run of digits
ToInt(digits) == CASE digits = "1" -> 1 [] digits = "2" -> 2 [] digits = "3" -> 3

GenLanguages == {"en", "cs"}

\* QUESTION_HEADER_RE: the headers it matches in a text, with the digits of
\* group 1.  The English pattern ignores case and takes Point or Mark.
QUESTION_HEADER_RE ==
    [lang \in GenLanguages |->
        IF lang = "en"
        THEN [tok \in {"Question 1 (1 Point)", "question 2 (1 mark)"} |->
                IF tok = "Question 1 (1 Point)" THEN "1" ELSE "2"]
        ELSE [tok \in {"Otazka 1 (1 bod)", "Otazka 2 (1 bod)"} |->
                IF tok = "Otazka 1 (1 bod)" THEN "1" ELSE "2"]]

IsHeader(lang, tok) == tok \in DOMAIN QUESTION_HEADER_RE[lang]

\* QUESTION_HEADER_RE.split(text): the text before the first header, then for
\* each header its digits and the text up to the next header.
RECURSIVE HeaderSplit(_, _)
HeaderSplit(lang, text) ==
    IF \A i \in 1..Len(text) : ~IsHeader(lang, text[i]) THEN <<text>>
    ELSE LET i == CHOOSE i \in 1..Len(text) :
                    IsHeader(lang, text[i]) /\ \A j \in 1..(i - 1) : ~IsHeader(lang, text[j])
         IN  <<SubSeq(text, 1, i - 1), <<QUESTION_HEADER_RE[lang][text[i]]>>>>
                \o HeaderSplit(lang, SubSeq(text, i + 1, Len(text)))

\* ANSWER_LINE_RE = ^([abcd])\)\s*(.+): the letter of group 1 by the token
\* that opens the line; the pattern needs some text after it.
ANSWER_LINE_RE ==
    [tok \in {"a)", "b)", "c)", "d)"} |->
        CASE tok = "a)" -> "a" [] tok = "b)" -> "b" [] tok = "c)" -> "c" [] tok = "d)" -> "d"]

AnswerLineMatches(line) == Len(line) >= 2 /\ line[1] \in DOMAIN ANSWER_LINE_RE

\* m.groups() of a matching line
AnswerLineLetter(line) == ANSWER_LINE_RE[line[1]]
AnswerLineText(line) == lstrip(Tail(line))

ABCD == <<"a", "b", "c", "d">>

\* sorted(option_map.keys())[-1]
LastSortedKey(option_map) ==
    CHOOSE k \in DOMAIN option_map :
        \A j \in DOMAIN option_map : IndexOf(ABCD, j) <= IndexOf(ABCD, k)

\* ------------------------------------------------------------- generator: parse_questions
\* A dict that is iterated: its keys in the order they were first set.
EmptyOrderedDict == [keys |-> <<>>, data |-> EmptyDict]

\* A dict insert that keeps the entry a key already has.
DictSetDefault(d, k, v) ==
    IF k \in Range(d.keys) THEN d
    ELSE [keys |-> Append(d.keys, k), data |-> Put(d.data, k, v)]

\* d[k] = v
DictSet(d, k, v) ==
    [keys |-> IF k \in Range(d.keys) THEN d.keys ELSE Append(d.keys, k),
     data |-> Put(d.data, k, v)]

\* lines = [l.strip() for l in block.splitlines() if l.strip()]
BlockLines(block) ==
    LET raw == splitlines(block)
    IN  SelectSeq([i \in 1..Len(raw) |-> strip(raw[i])], LAMBDA l : l # <<>>)

\* The locals of the loop over the lines of a block.
NewBlock == [mode |-> "question", question_lines |-> <<>>, option_map |-> EmptyDict]

\* The body of `for line in lines`.
ScanLine(b, line) ==
    IF AnswerLineMatches(line)
    THEN [b EXCEPT !.mode = "answers",
                   !.option_map = Put(@, AnswerLineLetter(line), strip(AnswerLineText(line)))]
    ELSE IF b.mode = "question"
    THEN [b EXCEPT !.question_lines = Append(@, line)]
    ELSE IF DOMAIN b.option_map # {}
    THEN LET last_key == LastSortedKey(b.option_map)
         IN  [b EXCEPT !.option_map = Put(@, last_key, @[last_key] \o <<" ">> \o strip(line))]
    ELSE b

RECURSIVE ScanLines(_, _)
ScanLines(b, lines) ==
    IF lines = <<>> THEN b ELSE ScanLines(ScanLine(b, lines[1]), Tail(lines))

\* The stem without its first line.
QuestionTextSkippingFirst(question_lines) ==
    IF question_lines = <<>> THEN <<>> ELSE strip(Join(Tail(question_lines), " "))

\* question_text = " ".join(question_lines).strip()
QuestionText(question_lines) == strip(Join(question_lines, " "))

\* Only the options that were found, in a,b,c,d order.
OptionsFound(option_map) ==
    LET found == SelectSeq(ABCD, LAMBDA ch : ch \in DOMAIN option_map)
    IN  [i \in 1..Len(found) |-> option_map[found[i]]]

\* options = [option_map.get(ch, "") for ch in "abcd"]
Options(option_map) == [i \in 1..Len(ABCD) |-> Get(option_map, ABCD[i], <<>>)]

\* What parse_questions stores for a block.
ParseBlock(block) ==
    LET b == ScanLines(NewBlock, BlockLines(block))
    IN  [question |-> QuestionText(b.question_lines), options |-> Options(b.option_map)]

\* The letters the warning of a block with fewer than 4 options names.
OptionLetters(block) == DOMAIN ScanLines(NewBlock, BlockLines(block)).option_map

\* One turn of `for i in range(1, len(parts), 2)` on the dict `result`.
ParseStep(parts, i, parsed) ==
    LET q_number == ToInt(At(parts, i)[1])
        block == At(parts, i + 1)
    IN  DictSet(parsed, q_number, ParseBlock(block))

RECURSIVE ParseFrom(_, _, _)
ParseFrom(parts, i, parsed) ==
    IF i >= Len(parts) THEN parsed
    ELSE ParseFrom(parts, i + 2, ParseStep(parts, i, parsed))

parse_questions(lang, text) == ParseFrom(HeaderSplit(lang, text), 1, EmptyOrderedDict)

\* ------------------------------------------------------------- generator: parse_answer_key
\* str.lower() of a token: the tokens of the model that hold capitals.
LowerToken(tok) ==
    CASE tok = "Answer key" -> "answer key"
      [] tok = "ANSWER KEY" -> "answer key"
      [] tok = "Klic odpovedi" -> "klic odpovedi"
      [] tok = "KLIC ODPOVEDI" -> "klic odpovedi"
      [] tok = "A" -> "a"
      [] tok = "B" -> "b"
      [] tok = "C" -> "c"
      [] tok = "D" -> "d"
      [] OTHER -> tok

\* text.lower()
Lower(text) == [i \in 1..Len(text) |-> LowerToken(text[i])]

\* str.find(sub): the first 0-based position of sub, -1 when it is not there
Find(text, sub) ==
    IF \A i \in 1..Len(text) : text[i] # sub THEN -1 ELSE IndexOf(text, sub)

\* idx = text.lower().find("answer key") of the English script,
\* idx = text.find("Klic odpovedi") of the Czech one
MarkerIndex(lang, text) ==
    IF lang = "en" THEN Find(Lower(text), "answer key") ELSE Find(text, "Klic odpovedi")

\* text[idx:]
From(text, idx) == SubSeq(text, idx + 1, Len(text))

Digits == {"1", "2", "3"}

\* [abcd] of KEY_ROW_RE: the English pattern ignores case
KeyLetters(lang) ==
    IF lang = "en" THEN {"a", "b", "c", "d", "A", "B", "C", "D"} ELSE {"a", "b", "c", "d"}

\* KEY_ROW_RE = ^(\d+)\s+([abcd])\b on a stripped line
KeyRowMatches(lang, line) ==
    /\ Len(line) >= 3
    /\ line[1] \in Digits
    /\ line[2] = " "
    /\ line[3] \in KeyLetters(lang)
    /\ Len(line) = 3 \/ IsSpace(line[4]) \/ line[4] = ")"

\* letter = m.group(2).lower()
KeyRowLetter(line) == LowerToken(line[3])

\* The loop over the lines of the key text.
RECURSIVE ScanKeyRows(_, _, _)
ScanKeyRows(lang, lines, key) ==
    IF lines = <<>> THEN key
    ELSE LET line == strip(lines[1])
         IN  ScanKeyRows(lang, Tail(lines),
                         IF KeyRowMatches(lang, line)
                         THEN Put(key, ToInt(line[1]), KeyRowLetter(line))
                         ELSE key)

parse_answer_key(lang, text) ==
    LET idx == MarkerIndex(lang, text)
        rest == IF idx # -1 THEN From(text, idx) ELSE text
    IN  ScanKeyRows(lang, splitlines(rest), EmptyDict)

\* ------------------------------------------------------------- generator: main
\* SETS: the sets of the batch (the first two of the four of the scripts).
SETS == <<"A", "B">>

\* A position of "abcd" counted from one.
CorrectIndexFromOne(letter) == IndexOf(ABCD, letter) + 1

\* correct_index = "abcd".index(letter)
CorrectIndex(letter) == IndexOf(ABCD, letter)

\* The record main appends for a question with a key entry.
QuestionRecord(set_id, q_num, lang, q_data, letter) ==
    [set |-> set_id, id |-> q_num, language |-> lang,
     question |-> q_data.question, options |-> q_data.options,
     correct_index |-> CorrectIndex(letter)]

\* One turn of `for q_num, q_data in questions.items()`.
BuildStep(g) ==
    LET q_num == g.questions.keys[g.n + 1]
        q_data == g.questions.data[q_num]
    IN  IF q_num \notin DOMAIN g.answer_key
        THEN [g EXCEPT !.n = @ + 1]
        ELSE [g EXCEPT !.n = @ + 1,
                       !.all_questions =
                           Append(@, QuestionRecord(SETS[g.set_index + 1], q_num, g.lang,
                                                    q_data, g.answer_key[q_num]))]

\* ------------------------------------------------------------- generator: the texts
\* The documents the parser is run on hold at most MaxLines lines, the key
\* documents at most MaxKeyLines lines.
MaxLines == 4
MaxKeyLines == 2

Header1(lang) == IF lang = "en" THEN "Question 1 (1 Point)" ELSE "Otazka 1 (1 bod)"
Header2(lang) == IF lang = "en" THEN "question 2 (1 mark)" ELSE "Otazka 2 (1 bod)"

\* The lines of a question document: two headers, a stem line (or a wrapped
\* line of an option), the start of option a and that of option b.
QuestionLines(lang) ==
    {<<Header1(lang)>>, <<Header2(lang)>>, <<"stem">>,
     <<"a)", " ", "foo">>, <<"b)", "bar">>}

TextsOf(lines, n) == {JoinLines(d) : d \in UNION {[1..k -> lines] : k \in 0..n}}

\* Question 1 with its four options, and question 2 in the same document
\* with option b alone.
FullQuestion(lang) ==
    JoinLines(<< <<Header1(lang)>>, <<"What", " ", "is", " ", "X?">>,
                 <<"a)", " ", "foo">>, <<"b)", " ", "bar">>,
                 <<"c)", " ", "baz">>, <<"d)", " ", "qux">> >>)

TwoQuestions(lang) ==
    FullQuestion(lang) \o <<NL>>
        \o JoinLines(<< <<Header2(lang)>>, <<"stem">>, <<"b)", "bar">> >>)

QuestionTexts(lang) == TextsOf(QuestionLines(lang), MaxLines) \cup {FullQuestion(lang)}

\* The lines of a key document: rows for 1 and 2 (one with a capital), a
\* second row for 1, the marker as the script writes it and in capitals.
KeyLines(lang) ==
    {<<"1", " ", "a">>, <<"2", " ", "B">>, <<"1", " ", "c">>,
     <<IF lang = "en" THEN "Answer key" ELSE "Klic odpovedi">>,
     <<IF lang = "en" THEN "ANSWER KEY" ELSE "KLIC ODPOVEDI">>}

KeyTexts(lang) == TextsOf(KeyLines(lang), MaxKeyLines)

\* ------------------------------------------------------------- generator: machines
\* The trainer is not running while a generator script runs.
TrainerOff ==
    /\ question_files = TrainerFiles
    /\ stats_file = [kind |-> "missing", data |-> EmptyDict]
    /\ session_state = EmptyDict
    /\ rerun_pending = FALSE
    /\ questions = <<>>
    /\ result = NoResult
    /\ runs_completed = 0

trainer_vars == <<question_files, stats_file, session_state, rerun_pending,
                  questions, result, runs_completed>>

\* parse_questions(text), one turn of its loop at a time.
InitParse ==
    /\ TrainerOff
    /\ \E lang \in GenLanguages : \E text \in QuestionTexts(lang) :
         generator = [pc |-> "parse", lang |-> lang, text |-> text,
                      parts |-> HeaderSplit(lang, text), i |-> 1,
                      result |-> EmptyOrderedDict]

ParseTurn ==
    /\ generator.pc = "parse"
    /\ generator.i < Len(generator.parts)
    /\ generator' = [generator EXCEPT
                        !.result = ParseStep(generator.parts, generator.i, @),
                        !.i = @ + 2]
    /\ UNCHANGED trainer_vars

ParseReturn ==
    /\ generator.pc = "parse"
    /\ generator.i >= Len(generator.parts)
    /\ generator' = [generator EXCEPT !.pc = "returned"]
    /\ UNCHANGED trainer_vars

NextParse == ParseTurn \/ ParseReturn

SpecParse == InitParse /\ [][NextParse]_vars

\* main() of a generator script: for each set the two texts are read and
\* parsed, then one record is built or skipped per turn, and the file is
\* written after the last set.
InitBuild ==
    /\ TrainerOff
    /\ \E lang \in GenLanguages :
         generator = [pc |-> "set", lang |-> lang, set_index |-> 0,
                      q_text |-> <<>>, a_text |-> <<>>,
                      questions |-> EmptyOrderedDict, answer_key |-> EmptyDict,
                      n |-> 0, all_questions |-> <<>>, out_file |-> <<>>]

ReadSet ==
    /\ generator.pc = "set"
    /\ generator.set_index < Len(SETS)
    /\ \E q_text \in {FullQuestion(generator.lang), TwoQuestions(generator.lang)} :
       \E a_text \in KeyTexts(generator.lang) :
         generator' = [generator EXCEPT
                          !.pc = "records", !.q_text = q_text, !.a_text = a_text,
                          !.questions = parse_questions(generator.lang, q_text),
                          !.answer_key = parse_answer_key(generator.lang, a_text),
                          !.n = 0]
    /\ UNCHANGED trainer_vars

BuildRecord ==
    /\ generator.pc = "records"
    /\ generator.n < Len(generator.questions.keys)
    /\ generator' = BuildStep(generator)
    /\ UNCHANGED trainer_vars

NextSet ==
    /\ generator.pc = "records"
    /\ generator.n >= Len(generator.questions.keys)
    /\ generator' = [generator EXCEPT !.pc = "set", !.set_index = @ + 1]
    /\ UNCHANGED trainer_vars

WriteFile ==
    /\ generator.pc = "set"
    /\ generator.set_index >= Len(SETS)
    /\ generator' = [generator EXCEPT !.pc = "done", !.out_file = generator.all_questions]
    /\ UNCHANGED trainer_vars

NextBuild == ReadSet \/ BuildRecord \/ NextSet \/ WriteFile

SpecBuild == InitBuild /\ [][NextBuild]_vars

\* ------------------------------------------------------------- properties
\* The persisted record of a question for a user: its counts, zero when absent.
Persisted(file, user, key) ==
    Get(UserQuestions(load_stats(file), user), key, [seen |-> 0, correct |-> 0])

PersistedKeys(file, user) == DOMAIN UserQuestions(load_stats(file), user)

\* The stats keys of the questions of a list, for the session's language.
RunKeys(qs) == {StatsKey(session_state.language, qs[i]) : i \in DOMAIN qs}

NumAnswers == Cardinality(DOMAIN session_state.answers)

\* C1: a finished run is counted in stats.json once and only once: the first
\* draw of the result view adds one to `seen` of each question of the run and
\* sets the one-shot flag; while the flag is set no run changes stats.json.
C1_StatsUpdatedOnce ==
    [][/\ (Finished /\ ~session_state.stats_updated) =>
            /\ session_state'.stats_updated
            /\ \A k \in RunKeys(questions') :
                 Persisted(stats_file', session_state.username, k).seen
                    = Persisted(stats_file, session_state.username, k).seen + 1
       /\ (HasSession /\ session_state.stats_updated) => stats_file' = stats_file
      ]_vars

C1_Witness ==
    /\ Finished
    /\ session_state.stats_updated
    /\ ~rerun_pending
    /\ result.shown
    /\ stats_file.kind = "ok"
    /\ Persisted(stats_file, "alice", <<"English", "A", 1>>).seen = 4

\* What a press of a button on the page on display leaves.
AfterPress(label) == main(Cur, CurrentWidgets, Press(label), NoDraws)

\* C2: the session becomes FINISHED only with at least as many recorded
\* answers as the run has questions; pressing finish in progress with fewer
\* answers leaves the session as it is, queues no rerun and leaves stats.json
\* alone.
C2_FinishNeedsAllAnswers ==
    /\ [](InProgress /\ ~rerun_pending /\ NumAnswers < Len(questions) =>
            /\ AfterPress("finish").session_state = session_state
            /\ ~AfterPress("finish").rerun_pending
            /\ AfterPress("finish").stats_file = stats_file)
    /\ [][(InProgress /\ Finished') =>
            Cardinality(DOMAIN session_state'.answers) >= Len(questions')]_vars

C2_Witness ==
    /\ Finished
    /\ rerun_pending
    /\ ~session_state.stats_updated
    /\ Len(questions) = 2
    /\ NumAnswers = 2

\* C3: in progress the position stays within [0, total - 1]: next and
\* previous move it by one, stopping at the ends, and leave the session in
\* progress.
C3_PositionInRange ==
    /\ [](InProgress =>
            session_state.current_index \in 0..(Len(questions) - 1))
    /\ [](InProgress /\ ~rerun_pending =>
            LET pos == session_state.current_index
                last == Len(questions) - 1
            IN  /\ AfterPress("next").session_state.current_index
                      = (IF pos + 1 > last THEN last ELSE pos + 1)
                /\ AfterPress("prev").session_state.current_index
                      = (IF pos - 1 < 0 THEN 0 ELSE pos - 1)
                /\ ~AfterPress("next").session_state.finished
                /\ ~AfterPress("prev").session_state.finished)
    /\ [][InProgress /\ session_state'.current_index # session_state.current_index =>
            PressNext \/ PressPrev \/ ~InProgress']_vars

C3_Witness ==
    /\ InProgress
    /\ ~rerun_pending
    /\ Len(questions) = 2
    /\ session_state.current_index = 1
    /\ NumAnswers = 2

\* The page main shows: intro, question or result.
Phase ==
    IF ~HasSession THEN "none"
    ELSE IF session_state.finished THEN "FINISHED"
    ELSE IF session_state.started THEN "IN_PROGRESS"
    ELSE "NOT_STARTED"

\* C4: the session moves NOT_STARTED -> IN_PROGRESS -> FINISHED and back to
\* NOT_STARTED by a reset only; it gets in progress by the start button only,
\* and a start pressed in a started session changes no session field, queues
\* no rerun and writes no stats.
C4_StartOnlyWhenNotStarted ==
    /\ []((InProgress \/ Finished) /\ ~rerun_pending =>
            /\ AfterPress("start").session_state = session_state
            /\ ~AfterPress("start").rerun_pending
            /\ AfterPress("start").stats_file = stats_file)
    /\ [][/\ Phase' # Phase =>
                <<Phase, Phase'>> \in {<<"none", "NOT_STARTED">>,
                                       <<"NOT_STARTED", "IN_PROGRESS">>,
                                       <<"IN_PROGRESS", "FINISHED">>,
                                       <<"IN_PROGRESS", "NOT_STARTED">>,
                                       <<"FINISHED", "NOT_STARTED">>}
          /\ (NotStarted /\ InProgress') => PressStart
         ]_vars

C4_Witness ==
    /\ InProgress
    /\ rerun_pending
    /\ session_state.start_time = "set"
    /\ NumAnswers = 0
    /\ Len(session_state.question_order) = 2

\* The questions of a list whose stored answer is the correct one.
CorrectlyAnswered(qs) ==
    {i \in DOMAIN qs :
        /\ Qid(qs[i], session_state.language) \in DOMAIN session_state.answers
        /\ session_state.answers[Qid(qs[i], session_state.language)] = qs[i].correct_index}

\* C5: the result shown at finish counts the questions of the run whose
\* stored answer is the correct_index, over the number of questions of the
\* run, and its percentage is correct / total * 100 exactly whenever that has
\* at most one decimal (3 of 4 is 75.0).
C5_ScoreAtFinish ==
    [][(Finished /\ ~session_state.stats_updated) =>
            /\ questions' = questions
            /\ result'.shown
            /\ result'.correct = Cardinality(CorrectlyAnswered(questions))
            /\ result'.total = Len(questions)
            /\ (1000 * result'.correct) % result'.total = 0 =>
                    result'.score_percent * result'.total = 1000 * result'.correct
      ]_vars

C5_Witness ==
    /\ Finished
    /\ session_state.stats_updated
    /\ result = [shown |-> TRUE, correct |-> 3, total |-> 4, score_percent |-> 750]
    /\ Len(questions) = 4

\* C6: the stats update of a finished run leaves, for each question of the
\* run, a record under its language:set:id key whose `seen` is one more than
\* before (zero when the key was absent) and whose `correct` is one more
\* exactly when the stored answer equals the correct_index.
C6_StatsUpdatePerQuestion ==
    [][(Finished /\ ~session_state.stats_updated) =>
            \A i \in DOMAIN questions :
                LET k == StatsKey(session_state.language, questions[i])
                    u == session_state.username
                    old == Persisted(stats_file, u, k)
                IN  /\ stats_file'.kind = "ok"
                    /\ k \in PersistedKeys(stats_file', u)
                    /\ Persisted(stats_file', u, k).seen = old.seen + 1
                    /\ Persisted(stats_file', u, k).correct =
                          old.correct + (IF i \in CorrectlyAnswered(questions) THEN 1 ELSE 0)
      ]_vars

C6_Witness ==
    /\ Finished
    /\ session_state.stats_updated
    /\ "carol" \notin DOMAIN load_stats(stats_file)
    /\ Persisted(stats_file, "alice", <<"English", "A", 1>>) = [seen |-> 1, correct |-> 0]
    /\ Persisted(stats_file, "alice", <<"English", "A", 3>>) = [seen |-> 1, correct |-> 1]
    /\ PersistedKeys(stats_file, "alice") = {<<"English", "A", 1>>, <<"English", "A", 3>>}

\* C7: no run removes a user or a question key from stats.json or lowers a
\* `seen` or `correct` count.
C7_StatsNeverShrink ==
    [][\A u \in DOMAIN load_stats(stats_file) :
          /\ u \in DOMAIN load_stats(stats_file')
          /\ \A k \in PersistedKeys(stats_file, u) :
                /\ k \in PersistedKeys(stats_file', u)
                /\ Persisted(stats_file', u, k).seen >= Persisted(stats_file, u, k).seen
                /\ Persisted(stats_file', u, k).correct >= Persisted(stats_file, u, k).correct
      ]_vars

C7_Witness ==
    /\ Persisted(stats_file, "carol", <<"English", "B", 2>>) = [seen |-> 4, correct |-> 1]
    /\ Persisted(stats_file, "alice", <<"English", "A", 3>>).seen = 1
    /\ Persisted(stats_file, "alice", <<"English", "A", 1>>).seen = 4
    /\ NotStarted

\* The weak questions of the selected set for the session's user, as
\* get_questions_for_mode selects them from the current stats.json.
SelectedSetQuestions ==
    load_questions(question_files[LANG_FILES[session_state.language]])[session_state.selected_set]

SelectWeak ==
    WeakQuestions(SelectedSetQuestions,
                  UserQuestions(load_stats(stats_file), session_state.username),
                  session_state.language)

HasWeakRecord(q) ==
    LET k == StatsKey(session_state.language, q)
        u == session_state.username
    IN  /\ k \in PersistedKeys(stats_file, u)
        /\ Persisted(stats_file, u, k).seen > 0
        /\ 10 * Persisted(stats_file, u, k).correct < 7 * Persisted(stats_file, u, k).seen

\* C8: the weak selection holds exactly the questions of the set that have a
\* record with seen > 0 and correct / seen < 0.7, in ascending id order; a
\* targeted run that has weak questions runs on exactly that selection.
C8_SelectWeak ==
    HasSession =>
        LET all == SelectedSetQuestions
            weak == SelectWeak
        IN  /\ \A i \in DOMAIN weak : weak[i] \in Range(all) /\ HasWeakRecord(weak[i])
            /\ \A j \in DOMAIN all : HasWeakRecord(all[j]) => all[j] \in Range(weak)
            /\ \A i, j \in DOMAIN weak : i < j => weak[i].id < weak[j].id
            /\ (/\ ~Finished
                /\ questions # <<>>
                /\ session_state.practice_mode = "Targeted"
                /\ weak # <<>>) => questions = weak

C8_Witness ==
    /\ InProgress
    /\ session_state.practice_mode = "Targeted"
    /\ Persisted(stats_file, "alice", <<"English", "D", 1>>) = [seen |-> 4, correct |-> 1]
    /\ Persisted(stats_file, "alice", <<"English", "D", 2>>) = [seen |-> 0, correct |-> 0]
    /\ Persisted(stats_file, "alice", <<"English", "D", 3>>) = [seen |-> 10, correct |-> 7]
    /\ Len(questions) = 1
    /\ questions[1].id = 1
    /\ questions = SelectWeak

\* C9: while a session stays started (no reset), every run leaves the
\* question order and every option order as they were.
C9_OrdersFrozen ==
    [][(/\ HasSession /\ session_state.started
        /\ HasSession' /\ session_state'.started) =>
            /\ session_state'.question_order = session_state.question_order
            /\ session_state'.option_orders = session_state.option_orders
      ]_vars

C9_Witness ==
    /\ InProgress
    /\ ~rerun_pending
    /\ session_state.question_order = <<1, 0>>
    /\ session_state.current_index = 0
    /\ NumAnswers = 2
    /\ \E qid \in DOMAIN session_state.option_orders :
          session_state.option_orders[qid] = <<1, 2, 3, 0>>

\* The question on display and what a selection of position p leaves.
CurrentQuestion ==
    At(questions, At(session_state.question_order, session_state.current_index))

AfterSelect(st, p) == main(st, CurrentWidgets, Select(p), NoDraws)

\* C10: in progress, selecting the option displayed at position p stores an
\* answer with the text displayed at p in place of any earlier answer of
\* that question, leaves the answers of the other questions and the position
\* as they were, and selecting it again changes nothing more.
C10_AnswerOverwrites ==
    (InProgress /\ ~rerun_pending) =>
        \A p \in 0..3 :
            LET once == AfterSelect(Cur, p)
                qid == Qid(CurrentQuestion, session_state.language)
                shown == CurrentQuestion.options[session_state.option_orders[qid][p + 1] + 1]
                new == once.session_state.answers
            IN  /\ DOMAIN new = DOMAIN session_state.answers \cup {qid}
                /\ CurrentQuestion.options[new[qid] + 1] = shown
                /\ \A k \in DOMAIN session_state.answers :
                      k # qid => new[k] = session_state.answers[k]
                /\ once.session_state.current_index = session_state.current_index
                /\ once.session_state = [session_state EXCEPT !.answers = new]
                /\ AfterSelect(once, p) = once

C10_Witness ==
    /\ InProgress
    /\ ~rerun_pending
    /\ NumAnswers = 2
    /\ session_state.current_index = 1
    /\ \E qid \in DOMAIN session_state.answers :
          /\ qid = Qid(CurrentQuestion, session_state.language)
          /\ session_state.answers[qid] # session_state.option_orders[qid][1]

\* ------------------------------------------------------------- properties of the generator
\* The numbers of the headers of a question text.
HeaderNumbers(lang, text) ==
    {ToInt(QUESTION_HEADER_RE[lang][text[i]]) : i \in {j \in 1..Len(text) : IsHeader(lang, text[j])}}

\* The ids of the records built so far for the set in hand.
EmittedIds ==
    {generator.all_questions[j].id :
        j \in {k \in 1..Len(generator.all_questions) :
                 generator.all_questions[k].set = SETS[generator.set_index + 1]}}

\* C11: when the turns over a set are done, the records of the set are those
\* of the header numbers of its question text that have a row in its key; a
\* turn appends at most one record, for the set in hand, whose correct_index
\* is the place of the key's letter in a,b,c,d (0..3), and it never drops a
\* record built before; the file written holds all the records.
C11_RecordIffBlockAndKey ==
    /\ [](generator.pc = "records" /\ generator.n >= Len(generator.questions.keys) =>
            EmittedIds = HeaderNumbers(generator.lang, generator.q_text)
                            \cap DOMAIN parse_answer_key(generator.lang, generator.a_text))
    /\ [](generator.pc \in {"set", "records", "done"} =>
            \A j \in 1..Len(generator.all_questions) :
                generator.all_questions[j].correct_index \in 0..3)
    /\ [](generator.pc = "done" => generator.out_file = generator.all_questions)
    /\ [][generator.pc = "records" /\ generator'.pc = "records" =>
            LET old == generator.all_questions
                new == generator'.all_questions
                q_num == generator.questions.keys[generator.n + 1]
            IN  IF q_num \in DOMAIN generator.answer_key
                THEN /\ Len(new) = Len(old) + 1
                     /\ SubSeq(new, 1, Len(old)) = old
                     /\ new[Len(new)].id = q_num
                     /\ new[Len(new)].set = SETS[generator.set_index + 1]
                     /\ ABCD[new[Len(new)].correct_index + 1] = generator.answer_key[q_num]
                ELSE new = old]_vars

C11_Witness ==
    /\ generator.pc = "records"
    /\ generator.set_index = 1
    /\ generator.q_text = TwoQuestions("en")
    /\ generator.n = 2
    /\ DOMAIN generator.answer_key = {2}
    /\ Len(generator.all_questions) = 2
    /\ generator.all_questions[2].id = 2
    /\ generator.all_questions[2].set = "B"
    /\ generator.all_questions[2].correct_index = 1

\* The places of the headers of a text, and the text between the header at
\* place i and the next header (or the end).
HeaderPlaces(lang, text) == {i \in 1..Len(text) : IsHeader(lang, text[i])}

BlockAfter(lang, text, i) ==
    LET later == {j \in HeaderPlaces(lang, text) : j > i}
        stop == IF later = {} THEN Len(text) + 1
                ELSE CHOOSE j \in later : \A k \in later : j <= k
    IN  SubSeq(text, i + 1, stop - 1)

\* The place of the last header with number k.
LastHeaderPlace(lang, text, k) ==
    LET mine == {i \in HeaderPlaces(lang, text) : ToInt(QUESTION_HEADER_RE[lang][text[i]]) = k}
    IN  CHOOSE i \in mine : \A j \in mine : j <= i

\* The blocks parse_questions walks over: parts[2], parts[4], ...
BlocksOf(parts) == [j \in 1..((Len(parts) - 1) \div 2) |-> parts[2 * j + 1]]

\* C12 as stated: a text with N headers gives N question blocks in the
\* parser's output, none of them empty.
C12_OneBlockPerHeader ==
    generator.pc = "returned" =>
        /\ Len(generator.result.keys) = Cardinality(HeaderPlaces(generator.lang, generator.text))
        /\ \A j \in 1..Len(BlocksOf(generator.parts)) : BlocksOf(generator.parts)[j] # <<>>

\* C12: a text with N headers is split into N pairs of a header number and
\* the text up to the next header, in the order of the document (a block is
\* empty when its header is followed at once by a header or by the end); the
\* parser's output has one entry per distinct header number, holding the last
\* block with that number.
C12_PairPerHeaderLastWins ==
    LET lang == generator.lang
        text == generator.text
        parts == generator.parts
        places == HeaderPlaces(lang, text)
    IN  /\ generator.pc \in {"parse", "returned"} =>
            /\ Len(BlocksOf(parts)) = Cardinality(places)
            /\ \A i \in places :
                 LET j == Cardinality({p \in places : p <= i})
                 IN  /\ parts[2 * j] = <<QUESTION_HEADER_RE[lang][text[i]]>>
                     /\ BlocksOf(parts)[j] = BlockAfter(lang, text, i)
        /\ generator.pc = "returned" =>
            /\ Range(generator.result.keys) = HeaderNumbers(lang, text)
            /\ Len(generator.result.keys) = Cardinality(HeaderNumbers(lang, text))
            /\ \A k \in HeaderNumbers(lang, text) :
                 generator.result.data[k]
                    = ParseBlock(BlockAfter(lang, text, LastHeaderPlace(lang, text, k)))

C12_Witness ==
    /\ generator.pc = "returned"
    /\ generator.text = JoinLines(<< <<Header1("en")>>, <<"stem">>, <<Header1("en")>>,
                                     <<"b)", "bar">> >>)
    /\ Len(BlocksOf(generator.parts)) = 2
    /\ generator.result.keys = <<1>>
    /\ generator.result.data[1].question = <<>>
    /\ generator.result.data[1].options[2] = <<"bar">>

\* The turn of the loop of parse_questions that a step takes: its number, the
\* non-empty lines of its block, and the entry it leaves.
TurnTaken == generator.pc = "parse" /\ generator'.pc = "parse"
TurnNumber == ToInt(At(generator.parts, generator.i)[1])
TurnLines == BlockLines(At(generator.parts, generator.i + 1))
TurnEntry == generator'.result.data[TurnNumber]

\* The lines of a block before its first option line.
RECURSIVE LeadingLines(_)
LeadingLines(lines) ==
    IF lines = <<>> \/ AnswerLineMatches(lines[1]) THEN <<>>
    ELSE <<lines[1]>> \o LeadingLines(Tail(lines))

\* C13 as stated: the stem of a block is non-empty whenever some non-empty
\* line of the block is no option line, wherever that line stands.
C13_StemOfAnyPlainLine ==
    [][TurnTaken =>
        ((\E j \in 1..Len(TurnLines) : ~AnswerLineMatches(TurnLines[j]))
            => TurnEntry.question # <<>>)]_vars

\* C13: the stem of a block is the space-joined run of its non-empty lines
\* before the first option line, so it is non-empty exactly when the first
\* non-empty line of the block is no option line; a plain line after an
\* option line is no part of the stem.
C13_StemOfLeadingLines ==
    [][TurnTaken =>
        /\ TurnEntry.question = Join(LeadingLines(TurnLines), " ")
        /\ TurnEntry.question # <<>>
             <=> (TurnLines # <<>> /\ ~AnswerLineMatches(TurnLines[1]))]_vars

C13_Witness ==
    /\ generator.pc = "returned"
    /\ generator.text = JoinLines(<< <<Header1("cs")>>, <<"stem">>, <<"stem">>,
                                     <<"a)", " ", "foo">> >>)
    /\ generator.result.data[1].question = <<"stem", " ", "stem">>

\* The letters of the option lines of a block, and the last option line with
\* a letter.
LettersFound(lines) == {AnswerLineLetter(lines[j]) : j \in {k \in 1..Len(lines) : AnswerLineMatches(lines[k])}}

LastLineOf(lines, letter) ==
    LET mine == {j \in 1..Len(lines) : AnswerLineMatches(lines[j]) /\ AnswerLineLetter(lines[j]) = letter}
    IN  lines[CHOOSE j \in mine : \A k \in mine : k <= j]

IsPrefix(a, b) == Len(a) <= Len(b) /\ SubSeq(b, 1, Len(a)) = a

\* C14: every turn leaves an entry for its block under the block's number,
\* with four option slots: the slot of a letter that no option line of the
\* block starts holds the empty text, the slot of a letter that was found
\* starts with the text of the last option line with that letter; the entry of
\* a number stays in the output to the end.
C14_FourOptionSlots ==
    /\ [][TurnTaken =>
            /\ TurnNumber \in Range(generator'.result.keys)
            /\ Len(TurnEntry.options) = 4
            /\ \A c \in 1..4 :
                 IF ABCD[c] \in LettersFound(TurnLines)
                 THEN /\ TurnEntry.options[c] # <<>>
                      /\ IsPrefix(AnswerLineText(LastLineOf(TurnLines, ABCD[c])),
                                  TurnEntry.options[c])
                 ELSE TurnEntry.options[c] = <<>>]_vars
    /\ [][generator.pc \in {"parse", "returned"} =>
            \A k \in Range(generator.result.keys) :
                /\ k \in Range(generator'.result.keys)
                /\ Len(generator'.result.data[k].options) = 4]_vars

C14_Witness ==
    /\ generator.pc = "returned"
    /\ generator.text = JoinLines(<< <<Header2("en")>>, <<"b)", "bar">> >>)
    /\ generator.result.data[2].options = << <<>>, <<"bar">>, <<>>, <<>> >>

\* The option texts of a block when a wrapped line goes to the option line
\* before it: the letter started last, and the text gathered per letter.
RECURSIVE ContinuedOptions(_, _, _)
ContinuedOptions(lines, recent, texts) ==
    IF lines = <<>> THEN texts
    ELSE IF AnswerLineMatches(lines[1])
    THEN ContinuedOptions(Tail(lines), AnswerLineLetter(lines[1]),
                          Put(texts, AnswerLineLetter(lines[1]), AnswerLineText(lines[1])))
    ELSE IF recent = "none"
    THEN ContinuedOptions(Tail(lines), recent, texts)
    ELSE ContinuedOptions(Tail(lines), recent,
                          Put(texts, recent, texts[recent] \o <<" ">> \o lines[1]))

\* C16: in a block, a line after the first option line that is no option
\* line is appended, after a space, to the text of the option letter started
\* last, whatever the order of the letters.
C16_ContinuationToLastStarted ==
    [][TurnTaken =>
        \A c \in 1..4 :
            TurnEntry.options[c]
                = Get(ContinuedOptions(TurnLines, "none", EmptyDict), ABCD[c], <<>>)]_vars

\* The key-section marker of a language, in small letters.
KeyMarker(lang) == IF lang = "en" THEN "answer key" ELSE "klic odpovedi"

\* C15: the key of a set holds the rows of the lines from the first marker
\* on, the marker found whatever its case, or the rows of the whole text when
\* there is no marker; its letters are among a, b, c, d.
C15_KeyFromMarkerAnyCase ==
    generator.pc = "records" =>
        LET text == generator.a_text
            idx == Find(Lower(text), KeyMarker(generator.lang))
            rest == IF idx # -1 THEN From(text, idx) ELSE text
        IN  /\ generator.answer_key = ScanKeyRows(generator.lang, splitlines(rest), EmptyDict)
            /\ \A k \in DOMAIN generator.answer_key : generator.answer_key[k] \in Range(ABCD)

\* ------------------------------------------------------------- properties of the session, continued
\* C17: in progress, selecting the option displayed at position p stores the
\* original index option_order[p] for the question on display, also when
\* several of its options have the same text.
C17_AnswerIsSelectedIndex ==
    (InProgress /\ ~rerun_pending) =>
        \A p \in 0..3 :
            LET qid == Qid(CurrentQuestion, session_state.language)
            IN  AfterSelect(Cur, p).session_state.answers[qid]
                    = session_state.option_orders[qid][p + 1]

\* C18: once the result of a finished run was shown, every further run of the
\* result view shows the same questions, count, total and percentage.
C18_ResultStableUntilReset ==
    [][(Finished /\ session_state.stats_updated /\ Finished') =>
            /\ questions' = questions
            /\ result' = result]_vars

\* C19: stats.json changes only in a step taken with the session finished and
\* its one-shot flag unset, a step that sets the flag; no other step (start,
\* answer, previous, next, finish, a changed sidebar, leaving the training
\* page, retry) writes it.
C19_StatsWrittenOnlyAtFinish ==
    [][stats_file' # stats_file =>
            /\ Finished
            /\ ~session_state.stats_updated
            /\ Finished'
            /\ session_state'.stats_updated
            /\ runs_completed' = runs_completed + 1]_vars

C19_Witness ==
    /\ Finished
    /\ session_state.stats_updated
    /\ runs_completed = 1
    /\ stats_file.kind = "ok"
    /\ DOMAIN load_stats(stats_file) = {"alice"}
    /\ session_state.practice_mode = "Targeted"

\* The configuration fields of a session, and a session state as init_state
\* leaves it apart from them.
ConfigFields ==
    {"selected_set", "language", "shuffle_questions", "shuffle_options",
     "username", "practice_mode"}

SameConfig(a, b) == \A f \in ConfigFields : a[f] = b[f]

IsFresh(ss) ==
    /\ ~ss.started
    /\ ~ss.finished
    /\ ss.current_index = 0
    /\ ss.answers = EmptyDict
    /\ ss.question_order = <<>>
    /\ ss.option_orders = EmptyDict
    /\ ss.start_time = "None"
    /\ ~ss.stats_updated

\* The sidebar after one of its values was changed: another or no name, the
\* other mode, a shuffle box, another set, another language.
SidebarsAfterChange ==
    LET c == CurrentWidgets
    IN  {w \in {[c EXCEPT !.username = u] : u \in {"alice", "bob", ""}}
                \cup {[c EXCEPT !.practice_mode = m] : m \in PracticeModes}
                \cup {[c EXCEPT !.shuffle_questions = b] : b \in BOOLEAN}
                \cup {[c EXCEPT !.shuffle_options = b] : b \in BOOLEAN}
                \cup {[c EXCEPT !.selected_set = x] : x \in SetNames(c.language)}
                \cup UNION {{[c EXCEPT !.language = l, !.selected_set = x] : x \in SetNames(l)} :
                               l \in Languages \ {c.language}} :
            ~SameConfig(w, session_state)}

AfterChange(w) == main(Cur, w, NoEvent, NoDraws).session_state

\* C20 as stated: whatever the state of the session, a changed configuration
\* field or a retry leaves it not started, at position 0, without answers,
\* orders, start time or stats flag.
C20_AnyChangeResets ==
    /\ (HasSession /\ ~rerun_pending) =>
            \A w \in SidebarsAfterChange : IsFresh(AfterChange(w))
    /\ (Finished /\ ~rerun_pending) => IsFresh(AfterPress("retry").session_state)

\* C20: a run of the training page with a name given and a changed set,
\* language, shuffle box, name or mode leaves the session of the new values
\* not started, at position 0, without answers, orders, start time or stats
\* flag, and so does a retry on the result page; a run with the name cleared
\* stops before the reset and leaves the session as it was.  Every session
\* that is not started is in that fresh state, and the start that follows
\* builds an order over the questions of the run and an option order for each.
C20_ChangeResets ==
    /\ []((HasSession /\ ~rerun_pending) =>
            \A w \in SidebarsAfterChange :
                IF w.username = ""
                THEN AfterChange(w) = session_state
                ELSE IsFresh(AfterChange(w)) /\ SameConfig(AfterChange(w), w))
    /\ []((Finished /\ ~rerun_pending) =>
            /\ IsFresh(AfterPress("retry").session_state)
            /\ SameConfig(AfterPress("retry").session_state, session_state))
    /\ [](NotStarted => IsFresh(session_state))
    /\ [][/\ (HasSession /\ HasSession' /\ ~SameConfig(session_state', session_state))
                => IsFresh(session_state')
          /\ (NotStarted /\ InProgress') =>
                /\ Len(session_state'.question_order) = Len(questions')
                /\ Range(session_state'.question_order) = 0..(Len(questions') - 1)
                /\ DOMAIN session_state'.option_orders
                      = {Qid(questions'[j], session_state'.language) : j \in 1..Len(questions')}
                /\ session_state'.current_index = 0
                /\ session_state'.answers = EmptyDict]_vars

C20_Witness ==
    /\ NotStarted
    /\ ~rerun_pending
    /\ runs_completed = 1
    /\ stats_file.kind = "ok"
    /\ session_state.language = "English"
    /\ ~session_state.shuffle_options
    /\ session_state.practice_mode = "Targeted"

\* The questions of a list that satisfy a test, in the order of the list.
RECURSIVE Keep(_, _)
Keep(qs, wanted) ==
    IF qs = <<>> THEN <<>>
    ELSE IF qs[1] \in wanted THEN <<qs[1]>> \o Keep(Tail(qs), wanted)
    ELSE Keep(Tail(qs), wanted)

\* C21: the questions of a session that is not finished are, in Standard
\* mode, the whole selected set whatever the statistics; in Targeted mode
\* the questions of the set with a record of the user with seen > 0 and
\* correct / seen < 0.7 when there is one, and the whole set when there is
\* none.  In Standard mode this holds of the result view as well.
C21_QuestionsOfTheMode ==
    HasSession =>
        LET all == SelectedSetQuestions
            weak == {q \in Range(all) : HasWeakRecord(q)}
        IN  /\ (session_state.practice_mode = "Standard") => questions = all
            /\ (session_state.practice_mode = "Targeted" /\ ~Finished) =>
                  IF weak = {} THEN questions = all ELSE questions = Keep(all, weak)

C21_Witness ==
    /\ InProgress
    /\ session_state.practice_mode = "Targeted"
    /\ session_state.language = "English"
    /\ session_state.selected_set = "B"
    /\ stats_file.kind = "ok"
    /\ Persisted(stats_file, "carol", <<"English", "B", 2>>) = [seen |-> 4, correct |-> 1]
    /\ questions = SelectedSetQuestions
    /\ Len(questions) = 1

\* C22: in progress, the question order holds each of 0..total-1 once, total
\* the number of questions of the run, so the positions 0..total-1 show every
\* question of the run once; the option order of each question of the run
\* holds each of its option indices 0..3 once; an order whose shuffle box is
\* not ticked is the identity.
C22_OrdersArePermutations ==
    InProgress =>
        LET total == Len(questions)
            order == session_state.question_order
        IN  /\ Len(order) = total
            /\ Range(order) = 0..(total - 1)
            /\ {At(questions, order[pos + 1]) : pos \in 0..(total - 1)} = Range(questions)
            /\ ~session_state.shuffle_questions => order = ListRange(total)
            /\ \A j \in 1..total :
                 LET qid == Qid(questions[j], session_state.language)
                 IN  /\ qid \in DOMAIN session_state.option_orders
                     /\ Len(session_state.option_orders[qid]) = 4
                     /\ Range(session_state.option_orders[qid]) = 0..3
                     /\ ~session_state.shuffle_options =>
                           session_state.option_orders[qid] = <<0, 1, 2, 3>>

C22_Witness ==
    /\ InProgress
    /\ ~rerun_pending
    /\ ~session_state.shuffle_questions
    /\ session_state.shuffle_options
    /\ session_state.question_order = <<0, 1>>
    /\ session_state.current_index = 1
    /\ \E qid \in DOMAIN session_state.option_orders :
          session_state.option_orders[qid] = <<1, 2, 3, 0>>

====
